---- MODULE Spec2Model ----
(***************************************************************************)
(* Session engine of the ATPL quiz (App.tsx): per-question mastery         *)
(* counters, current question, stats, their localStorage copies, and the   *)
(* component state that gates answering.  One action per handler; each     *)
(* action includes the render and the effects the handler's state updates  *)
(* trigger (persist effects, reset-selection effect, displayedOptions      *)
(* memo).                                                                  *)
(***************************************************************************)
EXTENDS Integers, Sequences, FiniteSets, TLC

\* ---- bounds of the model ----
MaxBank == 2        \* largest bank (number of questions) drawn at load
MaxAnswers == 6     \* answers accepted between two resets
MaxPending == 1     \* auto-advance timers in flight at once
MaxClock == 3       \* last instant of the wall clock (Date.now())
MaxLines == 7       \* longest block (trimmed non-empty lines) of a one-block corpus
MaxBlocks == 3      \* most blocks in a corpus of several blocks

\* ---- program constants ----
Null == 0                \* currentQuestionId: number | null (ids are positive)
MasteryThreshold == 5    \* nextQs.consecutiveCorrect >= 5
MinLines == 4            \* if (lines.length < 4) continue
QuestionWindow == 3      \* questionLineIndex < Math.min(3, lines.length)
OptionCount == 3         \* .slice(0, 3); optionLines.length !== 3

VARIABLES
    allQuestions,      \* parsed bank; <<>> until questions.txt is fetched
    session,           \* SessionState {questionStates, currentQuestionId}
    stats,             \* StatsState {totalAnswers, correctAnswers}
    storedSession,     \* localStorage[STORAGE_KEYS.session]: <<>> absent, <<v>> present
    storedStats,       \* localStorage[STORAGE_KEYS.stats]
    selectedIdx,       \* component state: <<>> for null, <<idx>> once chosen
    hasAnswered,       \* component state, not persisted
    displayedOptions,  \* shuffled options of the current question
    pendingAdvance,    \* setTimeout(handleNext, 800) callbacks not yet fired
    crashed,           \* a state updater threw during render; the tree is unmounted
    presentationAnswered, \* history: an answer was accepted since the last start/advance/reset
    everStarted,          \* history: "Начать тест" / "Новый тест" was pressed at least once
    now,               \* Date.now()
    timerStartMs,      \* startMs captured by the interval callback of usePersistentTimer
    storedTimerStart,  \* localStorage[STORAGE_KEYS.timerStart]
    elapsedMs,         \* usePersistentTimer state
    raw                \* fetched corpus as blocks of trimmed non-empty lines; <<>> for
                       \* null (the engine specifications draw the parsed bank itself)

timerVars == <<now, timerStartMs, storedTimerStart, elapsedMs>>

vars == <<allQuestions, session, stats, storedSession, storedStats, selectedIdx,
          hasAnswered, displayedOptions, pendingAdvance, crashed, presentationAnswered,
          everStarted, now, timerStartMs, storedTimerStart, elapsedMs, raw>>

\* ---- localStorage entry of the timer: a string, absent, numeric or not ----
AbsentEntry == [present |-> FALSE, numeric |-> FALSE, value |-> 0]
GarbageEntry == [present |-> TRUE, numeric |-> FALSE, value |-> 0]
\* String(ms) as written by setItem; Number(...) reads value back
NumericEntry(ms) == [present |-> TRUE, numeric |-> TRUE, value |-> ms]

\* faulty variant: every mount takes a new start
needsNewStart_always(entry) == TRUE

\* !start || Number.isNaN(Number(start))
needsNewStart(entry) == ~entry.present \/ ~entry.numeric

\* ---- the bank ----
\* A parsed Question: 3 options with ids 0,1,2; a well-formed one has exactly
\* one option marked correct, a malformed one none.
Question(i, wellFormed) ==
    [id |-> i,
     options |-> [k \in 1..3 |->
                    [id |-> k - 1,
                     isCorrect |-> wellFormed /\ (k - 1 = (i - 1) % 3)]]]

\* Banks the fetch may deliver: ids 1..n, the last question possibly malformed.
Banks ==
    {[i \in 1..n |-> Question(i, (i < n) \/ wf)] : n \in 1..MaxBank, wf \in BOOLEAN}

BankIds(questions) == {questions[i].id : i \in DOMAIN questions}

\* ---- parseQuestions ----
\* A trimmed non-empty line, by the two tests the parser applies to it:
\* /^\d+\s*\./ (then id is Number of the digits) and /^\*\s*/
QLine(n) == [kind |-> "question", id |-> n]
StarLine == [kind |-> "star", id |-> Null]
PlainLine == [kind |-> "plain", id |-> Null]

\* /^\d+\s*\./.test(line)
startsWithNumber(line) == line.kind = "question"

Min(a, b) == IF a < b THEN a ELSE b

\* the while loop: the first index (0-based) below Math.min(3, lines.length)
\* whose line starts with a number, else that minimum
RECURSIVE scanQuestionLine(_, _)
scanQuestionLine(lines, i) ==
    IF i < Min(QuestionWindow, Len(lines)) /\ ~startsWithNumber(lines[i + 1])
    THEN scanQuestionLine(lines, i + 1)
    ELSE i

\* lines.slice(questionLineIndex + 1).filter(...).slice(0, 3)
optionLinesOf(lines, questionLineIndex) ==
    SubSeq(lines, questionLineIndex + 2,
           Min(Len(lines), questionLineIndex + 1 + OptionCount))

\* optionLines.map((line, idx) => ({ id: idx, text, isCorrect: /^\*\s*/.test(line) }))
optionsOf(optionLines) ==
    [k \in DOMAIN optionLines |->
        [id |-> k - 1, isCorrect |-> optionLines[k].kind = "star"]]

\* the body of the loop over blocks: <<>> for `continue`, else the pushed Question
parseBlock(lines) ==
    IF Len(lines) < MinLines THEN <<>>
    ELSE LET questionLineIndex == scanQuestionLine(lines, 0)
         IN IF questionLineIndex >= Len(lines) THEN <<>>
            ELSE IF ~startsWithNumber(lines[questionLineIndex + 1]) THEN <<>>
            ELSE LET optionLines == optionLinesOf(lines, questionLineIndex)
                 IN IF Len(optionLines) # OptionCount THEN <<>>
                    ELSE <<[id |-> lines[questionLineIndex + 1].id,
                            options |-> optionsOf(optionLines)]>>

RECURSIVE parseBlocks(_)
parseBlocks(blocks) ==
    IF blocks = <<>> THEN <<>>
    ELSE parseBlock(Head(blocks)) \o parseBlocks(Tail(blocks))

\* faulty variant: a later question replaces an earlier one with the same id
RECURSIVE dedupe_keepsLast(_, _)
dedupe_keepsLast(questions, seen) ==
    IF questions = <<>> THEN <<>>
    ELSE IF \E i \in DOMAIN Tail(questions) : Tail(questions)[i].id = Head(questions).id
         THEN dedupe_keepsLast(Tail(questions), seen)
         ELSE <<Head(questions)>> \o dedupe_keepsLast(Tail(questions), seen)

\* the seen/deduped loop
RECURSIVE dedupe(_, _)
dedupe(questions, seen) ==
    IF questions = <<>> THEN <<>>
    ELSE IF Head(questions).id \in seen
         THEN dedupe(Tail(questions), seen)
         ELSE <<Head(questions)>> \o
              dedupe(Tail(questions), seen \cup {Head(questions).id})

parseQuestions(blocks) == dedupe(parseBlocks(blocks), {})

\* corpora the fetch may deliver: one block of up to MaxLines lines of any
\* form, or up to MaxBlocks blocks, each a 4-line question block or a block
\* without a question
RECURSIVE SeqsOver(_, _)
SeqsOver(S, n) ==
    IF n = 0 THEN {<<>>}
    ELSE {Append(t, x) : t \in SeqsOver(S, n - 1), x \in S}

LineForms == {QLine(1), StarLine, PlainLine}

OneBlockCorpora ==
    UNION {{<<b>> : b \in SeqsOver(LineForms, n)} : n \in 1..MaxLines}

QuestionBlocks ==
    {<<QLine(n), a, PlainLine, PlainLine>> : n \in {1, 2}, a \in {StarLine, PlainLine}}

SeveralBlockCorpora ==
    UNION {SeqsOver(QuestionBlocks \cup {<<PlainLine, PlainLine>>}, n) : n \in 2..MaxBlocks}

Corpora == OneBlockCorpora \cup SeveralBlockCorpora

\* ---- initial values of the useState hooks ----
EmptyStates == [q \in {} |-> Null]
initialSession == [questionStates |-> EmptyStates, currentQuestionId |-> Null]
initialStats == [totalAnswers |-> 0, correctAnswers |-> 0]

\* ---- stored texts that the app itself never writes ----
NotJson == [notJson |-> TRUE]           \* text that JSON.parse rejects
JsonNull == [jsonNull |-> TRUE]         \* the text "null"
JsonNumber == [jsonNumber |-> TRUE]     \* a bare number
JsonEmptyObject == [jsonObject |-> TRUE] \* "{}": an object without the expected fields
WrongShape == {JsonNull, JsonNumber, JsonEmptyObject}
ForeignEntries == {<<>>, <<NotJson>>, <<JsonNull>>, <<JsonNumber>>, <<JsonEmptyObject>>}

\* JSON.parse(stored) returns normally
JSONparses(doc) == doc # NotJson

\* useState initializers: try { return JSON.parse(stored) } catch {} then the
\* fresh value; whatever JSON.parse returns is used as the state, unchecked
rehydrateSession(stored) ==
    IF stored # <<>> /\ JSONparses(stored[1]) THEN stored[1] ELSE initialSession
rehydrateStats(stored) ==
    IF stored # <<>> /\ JSONparses(stored[1]) THEN stored[1] ELSE initialStats

\* the first render throws a TypeError: Object.values(session.questionStates)
\* when session is null or has no questionStates, stats.totalAnswers when stats
\* is null
startupThrows(s, st) == s \in WrongShape \/ st = JsonNull

\* ---- derived values of a render ----
\* currentQuestion?.id, Null when allQuestions.find(...) finds nothing
currentQuestionKey(questions, s) ==
    IF s.currentQuestionId \in BankIds(questions) THEN s.currentQuestionId ELSE Null

currentQuestion(questions, s) ==
    CHOOSE q \in {questions[i] : i \in DOMAIN questions} : q.id = s.currentQuestionId

\* Object.values(session.questionStates).filter(qs => !qs.isExcluded).length
activeCount(s) ==
    Cardinality({q \in DOMAIN s.questionStates : ~s.questionStates[q].isExcluded})

totalCount(questions) == Len(questions)

completedCount(questions, s) ==
    IF totalCount(questions) - activeCount(s) > 0
    THEN totalCount(questions) - activeCount(s) ELSE 0

isFinished(s) == activeCount(s) = 0

\* ---- pickNextQuestionId ----
\* questions.filter(q => !states[q.id]?.isExcluded): a question without a
\* record is a candidate
Candidates(questions, states) ==
    {q \in BankIds(questions) : ~(q \in DOMAIN states /\ states[q].isExcluded)}

\* faulty variant: with no candidate left, the pick falls back to any bank question
pickNextQuestionId_neverNull(questions, states) ==
    IF Candidates(questions, states) = {} THEN BankIds(questions)
    ELSE Candidates(questions, states)

\* the set of values pickNextQuestionId may return
pickNextQuestionId(questions, states) ==
    IF Candidates(questions, states) = {} THEN {Null} ELSE Candidates(questions, states)

\* ---- displayedOptions: Fisher-Yates over the 3 options ----
Swap(s, i, j) == [s EXCEPT ![i] = s[j], ![j] = s[i]]

\* faulty variant: the swap loses options[i] (tmp is never written back)
Shuffles_overwrites(options) ==
    {[[options EXCEPT ![3] = options[j2 + 1]] EXCEPT ![2] = options[j1 + 1]] :
        j2 \in 0..2, j1 \in 0..1}

\* i = 2 with j2 in 0..2, then i = 1 with j1 in 0..1 (1-based sequences here)
Shuffles(options) ==
    {Swap(Swap(options, 3, j2 + 1), 2, j1 + 1) : j2 \in 0..2, j1 \in 0..1}

\* faulty variant: the effect writes a fresh record for every bank question
initializeProgress_overwrites(questions, prev) ==
    [prev EXCEPT !.questionStates =
        [q \in (DOMAIN prev.questionStates) \cup BankIds(questions) |->
            IF q \notin BankIds(questions)
            THEN prev.questionStates[q]
            ELSE [questionId |-> q, consecutiveCorrect |-> 0, isExcluded |-> FALSE]]]

\* ---- progress initialization effect (setSession updater) ----
initializeProgress(questions, prev) ==
    [prev EXCEPT !.questionStates =
        [q \in (DOMAIN prev.questionStates) \cup BankIds(questions) |->
            IF q \in DOMAIN prev.questionStates
            THEN prev.questionStates[q]
            ELSE [questionId |-> q, consecutiveCorrect |-> 0, isExcluded |-> FALSE]]]

\* ---- handleAnswer: the two updaters ----
\* faulty variant: every answer is counted as correct
statsUpdater_countsAllCorrect(prev, isCorrect) ==
    [totalAnswers |-> prev.totalAnswers + 1,
     correctAnswers |-> prev.correctAnswers + 1]

statsUpdater(prev, isCorrect) ==
    [totalAnswers |-> prev.totalAnswers + 1,
     correctAnswers |-> prev.correctAnswers + (IF isCorrect THEN 1 ELSE 0)]

\* faulty variant: the threshold test is `>` instead of `>=`
nextQsOf_strictThreshold(states, cid, isCorrect) ==
    LET has == cid \in DOMAIN states
        cc  == IF isCorrect THEN states[cid].consecutiveCorrect + 1 ELSE 0
    IN [questionId |-> IF has THEN states[cid].questionId ELSE Null,
        consecutiveCorrect |-> cc,
        isExcluded |-> isCorrect /\ cc > MasteryThreshold]

\* { ...qs, consecutiveCorrect: ..., isExcluded: false } then the threshold test;
\* called only where qs exists or isCorrect is false (else the updater throws)
nextQsOf(states, cid, isCorrect) ==
    LET has == cid \in DOMAIN states
        cc  == IF isCorrect THEN states[cid].consecutiveCorrect + 1 ELSE 0
    IN [questionId |-> IF has THEN states[cid].questionId ELSE Null,
        consecutiveCorrect |-> cc,
        isExcluded |-> isCorrect /\ cc >= MasteryThreshold]

\* faulty variant: a wrong answer also clears the streak of every other question
sessionUpdater_clearsOthers(prev, cid, isCorrect) ==
    [prev EXCEPT !.questionStates =
        [q \in (DOMAIN prev.questionStates) \cup {cid} |->
            IF q = cid THEN nextQsOf(prev.questionStates, cid, isCorrect)
            ELSE IF isCorrect THEN prev.questionStates[q]
            ELSE [prev.questionStates[q] EXCEPT !.consecutiveCorrect = 0]]]

sessionUpdater(prev, cid, isCorrect) ==
    [prev EXCEPT !.questionStates =
        [q \in (DOMAIN prev.questionStates) \cup {cid} |->
            IF q = cid THEN nextQsOf(prev.questionStates, cid, isCorrect)
            ELSE prev.questionStates[q]]]

\* qs.consecutiveCorrect is read on an undefined qs
updaterThrows(prev, cid, isCorrect) ==
    isCorrect /\ cid \notin DOMAIN prev.questionStates

\* faulty variant: correctness is taken from the position (the first button)
chosenIsCorrect_byPosition(shown, idx) == idx = 0

\* displayedOptions[idx]?.isCorrect === true
chosenIsCorrect(shown, idx) ==
    (idx + 1) \in DOMAIN shown /\ shown[idx + 1].isCorrect

\* faulty variant: the persist effect is keyed on session.currentQuestionId
\* instead of session
Commit_persistsOnIdChange(questions2, s2, selected2, answered2) ==
    /\ session' = s2
    /\ storedSession' = IF s2.currentQuestionId # session.currentQuestionId
                        THEN <<s2>> ELSE storedSession
    /\ selectedIdx' = IF s2.currentQuestionId # session.currentQuestionId
                      THEN <<>> ELSE selected2
    /\ hasAnswered' = IF s2.currentQuestionId # session.currentQuestionId
                      THEN FALSE ELSE answered2
    /\ displayedOptions' \in
         IF currentQuestionKey(questions2, s2) = currentQuestionKey(allQuestions, session)
         THEN {displayedOptions}
         ELSE IF currentQuestionKey(questions2, s2) = Null
              THEN {<<>>}
              ELSE Shuffles(currentQuestion(questions2, s2).options)

\* ---- render and effects after a setSession ----
\* persist effect; reset-selection effect keyed on session.currentQuestionId;
\* displayedOptions memo keyed on currentQuestion?.id
Commit(questions2, s2, selected2, answered2) ==
    /\ session' = s2
    /\ storedSession' = <<s2>>
    /\ selectedIdx' = IF s2.currentQuestionId # session.currentQuestionId
                      THEN <<>> ELSE selected2
    /\ hasAnswered' = IF s2.currentQuestionId # session.currentQuestionId
                      THEN FALSE ELSE answered2
    /\ displayedOptions' \in
         IF currentQuestionKey(questions2, s2) = currentQuestionKey(allQuestions, session)
         THEN {displayedOptions}
         ELSE IF currentQuestionKey(questions2, s2) = Null
              THEN {<<>>}
              ELSE Shuffles(currentQuestion(questions2, s2).options)

\* ---- state after the first mount with empty storage ----
Init ==
    /\ allQuestions = <<>>
    /\ session = initialSession
    /\ stats = initialStats
    /\ storedSession = <<initialSession>>
    /\ storedStats = <<initialStats>>
    /\ selectedIdx = <<>>
    /\ hasAnswered = FALSE
    /\ displayedOptions = <<>>
    /\ pendingAdvance = 0
    /\ crashed = FALSE
    /\ presentationAnswered = FALSE
    /\ everStarted = FALSE
    /\ now = 0
    /\ timerStartMs = 0
    /\ storedTimerStart = NumericEntry(0)
    /\ elapsedMs = 0
    /\ raw = <<>>

\* ---- fetch('questions.txt') resolves: setRaw, then the init effect ----
LoadBank ==
    /\ ~crashed
    /\ allQuestions = <<>>
    /\ \E b \in Banks :
        /\ allQuestions' = b
        /\ Commit(b, initializeProgress(b, session), selectedIdx, hasAnswered)
    /\ UNCHANGED <<stats, storedStats, pendingAdvance, crashed, presentationAnswered,
                   everStarted>>
    /\ UNCHANGED timerVars
    /\ UNCHANGED raw

\* ---- fetch('questions.txt') resolves with a corpus: setRaw, the allQuestions
\* memo runs parseQuestions, then the init effect (a no-op on an empty bank) ----
FetchCorpus ==
    /\ ~crashed
    /\ raw = <<>>
    /\ raw' \in Corpora
    /\ allQuestions' = parseQuestions(raw')
    /\ Commit(allQuestions', initializeProgress(allQuestions', session),
              selectedIdx, hasAnswered)
    /\ UNCHANGED <<stats, storedStats, pendingAdvance, crashed, presentationAnswered,
                   everStarted>>
    /\ UNCHANGED timerVars

\* ---- "Начать тест" / "Новый тест" ----
StartTest ==
    /\ ~crashed
    /\ allQuestions # <<>>
    /\ session.currentQuestionId = Null \/ isFinished(session)
    /\ \E nextId \in pickNextQuestionId(allQuestions, session.questionStates) :
        Commit(allQuestions, [session EXCEPT !.currentQuestionId = nextId],
               selectedIdx, hasAnswered)
    /\ presentationAnswered' = FALSE
    /\ everStarted' = TRUE
    /\ UNCHANGED <<allQuestions, stats, storedStats, pendingAdvance, crashed>>
    /\ UNCHANGED timerVars
    /\ UNCHANGED raw

\* ---- handleAnswer(idx), by click or key 1/2/3 ----
handleAnswer ==
    /\ ~crashed
    /\ ~hasAnswered
    /\ currentQuestionKey(allQuestions, session) # Null
    /\ stats.totalAnswers < MaxAnswers
    /\ \E idx \in 0..2 :
        LET isCorrect == chosenIsCorrect(displayedOptions, idx)
            cid == session.currentQuestionId
        IN IF updaterThrows(session, cid, isCorrect)
           THEN /\ crashed' = TRUE
                /\ UNCHANGED <<session, stats, storedSession, storedStats, selectedIdx,
                               hasAnswered, displayedOptions, pendingAdvance,
                               presentationAnswered>>
           ELSE /\ stats' = statsUpdater(stats, isCorrect)
                /\ storedStats' = <<stats'>>
                /\ Commit(allQuestions, sessionUpdater(session, cid, isCorrect),
                          <<idx>>, TRUE)
                /\ presentationAnswered' = TRUE
                \* excludedNow is written by the updater, which React may run only
                \* at render time, after the `if (excludedNow)` test: both outcomes
                /\ pendingAdvance' \in
                     IF session'.questionStates[cid].isExcluded /\ pendingAdvance < MaxPending
                     THEN {pendingAdvance, pendingAdvance + 1}
                     ELSE {pendingAdvance}
                /\ UNCHANGED crashed
    /\ UNCHANGED <<allQuestions, everStarted>>
    /\ UNCHANGED timerVars
    /\ UNCHANGED raw

\* ---- handleNext, by "Далее" or Enter ----
handleNext ==
    /\ ~crashed
    /\ hasAnswered
    /\ currentQuestionKey(allQuestions, session) # Null
    /\ \E nextId \in pickNextQuestionId(allQuestions, session.questionStates) :
        Commit(allQuestions, [session EXCEPT !.currentQuestionId = nextId],
               selectedIdx, hasAnswered)
    /\ presentationAnswered' = FALSE
    /\ UNCHANGED <<allQuestions, stats, storedStats, pendingAdvance, crashed, everStarted>>
    /\ UNCHANGED timerVars
    /\ UNCHANGED raw

\* ---- the deferred handleNext of the render that scheduled it ----
\* its closure saw a non-null currentQuestion, so the guard at its top passes
AutoAdvance ==
    /\ pendingAdvance > 0
    /\ pendingAdvance' = pendingAdvance - 1
    /\ IF crashed
       THEN UNCHANGED <<session, storedSession, selectedIdx, hasAnswered,
                        displayedOptions, presentationAnswered>>
       ELSE /\ \E nextId \in pickNextQuestionId(allQuestions, session.questionStates) :
                 Commit(allQuestions, [session EXCEPT !.currentQuestionId = nextId],
                        selectedIdx, hasAnswered)
            /\ presentationAnswered' = FALSE
    /\ UNCHANGED <<allQuestions, stats, storedStats, crashed, everStarted>>
    /\ UNCHANGED timerVars
    /\ UNCHANGED raw

\* ---- handleReset ("Сбросить прогресс", home and finish screens) ----
\* removeItem x3, setSession, setStats; the persist effects then write the new
\* values; the init effect (keyed on allQuestions.length) does not run again.
\* faulty variant: setStats is missing, the counters survive the reset
handleReset_keepsStats ==
    /\ ~crashed
    /\ allQuestions # <<>>
    /\ session.currentQuestionId = Null \/ isFinished(session)
    /\ Commit(allQuestions, initialSession, selectedIdx, hasAnswered)
    /\ presentationAnswered' = FALSE
    /\ storedTimerStart' = NumericEntry(now)
    /\ elapsedMs' = 0
    /\ UNCHANGED <<allQuestions, stats, storedStats, pendingAdvance, crashed, everStarted,
                   now, timerStartMs, raw>>

\* resetTimer() stores String(Date.now()) and sets elapsedMs to 0; the startMs
\* held by the interval callback is a local of the mount effect and is not touched
handleReset ==
    /\ ~crashed
    /\ allQuestions # <<>>
    /\ session.currentQuestionId = Null \/ isFinished(session)
    /\ stats' = initialStats
    /\ storedStats' = <<initialStats>>
    /\ Commit(allQuestions, initialSession, selectedIdx, hasAnswered)
    /\ presentationAnswered' = FALSE
    /\ storedTimerStart' = NumericEntry(now)
    /\ elapsedMs' = 0
    /\ UNCHANGED <<allQuestions, pendingAdvance, crashed, everStarted, now, timerStartMs,
                   raw>>

\* ---- page reload / app restart: state is rebuilt from storage ----
\* When the first render throws no effect runs: nothing is written and no
\* interval is started. Otherwise the persist effects write the state back and
\* the timer effect takes the stored start, or Date.now() when it is unusable,
\* and calls update() once
Reload ==
    /\ raw' = <<>>
    /\ allQuestions' = <<>>
    /\ session' = rehydrateSession(storedSession)
    /\ stats' = rehydrateStats(storedStats)
    /\ crashed' = startupThrows(session', stats')
    /\ storedSession' = IF crashed' THEN storedSession ELSE <<session'>>
    /\ storedStats' = IF crashed' THEN storedStats ELSE <<stats'>>
    /\ selectedIdx' = <<>>
    /\ hasAnswered' = FALSE
    /\ displayedOptions' = <<>>
    /\ pendingAdvance' = 0
    /\ IF crashed'
       THEN UNCHANGED <<timerStartMs, storedTimerStart, elapsedMs>>
       ELSE /\ timerStartMs' = IF needsNewStart(storedTimerStart)
                               THEN now ELSE storedTimerStart.value
            /\ storedTimerStart' = IF needsNewStart(storedTimerStart)
                                   THEN NumericEntry(now) ELSE storedTimerStart
            /\ elapsedMs' = now - timerStartMs'
    /\ UNCHANGED <<presentationAnswered, everStarted, now>>

\* ---- the interval callback: setElapsedMs(Date.now() - startMs) ----
update ==
    /\ ~crashed
    /\ elapsedMs' = now - timerStartMs
    /\ UNCHANGED <<allQuestions, session, stats, storedSession, storedStats, selectedIdx,
                   hasAnswered, displayedOptions, pendingAdvance, crashed,
                   presentationAnswered, everStarted, now, timerStartMs, storedTimerStart,
                   raw>>

\* ---- environment: time passes ----
AdvanceClock ==
    /\ now < MaxClock
    /\ now' = now + 1
    /\ UNCHANGED <<allQuestions, session, stats, storedSession, storedStats, selectedIdx,
                   hasAnswered, displayedOptions, pendingAdvance, crashed,
                   presentationAnswered, everStarted, timerStartMs, storedTimerStart,
                   elapsedMs, raw>>

\* ---- environment: a storage entry is removed or replaced from outside the app
\* (cleared site data, another build, a hand edit); one foreign entry at a time ----
TamperStorage ==
    /\ storedSession \notin ForeignEntries
    /\ storedStats \notin ForeignEntries
    /\ ~needsNewStart(storedTimerStart)
    /\ \/ storedSession' \in ForeignEntries /\ UNCHANGED <<storedStats, storedTimerStart>>
       \/ storedStats' \in ForeignEntries /\ UNCHANGED <<storedSession, storedTimerStart>>
       \/ storedTimerStart' \in {AbsentEntry, GarbageEntry}
          /\ UNCHANGED <<storedSession, storedStats>>
    /\ UNCHANGED <<allQuestions, session, stats, selectedIdx, hasAnswered, displayedOptions,
                   pendingAdvance, crashed, presentationAnswered, everStarted, now,
                   timerStartMs, elapsedMs, raw>>

Next ==
    \/ LoadBank
    \/ StartTest
    \/ handleAnswer
    \/ handleNext
    \/ AutoAdvance
    \/ handleReset
    \/ Reload

\* the quiz engine, with the wall clock standing at the mount instant
Spec == Init /\ [][Next]_vars

\* storage and timer: the clock runs and the storage entries can be foreign;
\* no question is answered
NextStorage ==
    \/ LoadBank
    \/ StartTest
    \/ handleReset
    \/ Reload
    \/ update
    \/ AdvanceClock
    \/ TamperStorage

SpecStorage == Init /\ [][NextStorage]_vars

\* the parser: a corpus arrives and is parsed; a reload fetches again
NextParser ==
    \/ FetchCorpus
    \/ Reload

SpecParser == Init /\ [][NextParser]_vars

\* ======================= properties =======================

qsOf(s) == s.questionStates
Excluded(s, q) == q \in DOMAIN qsOf(s) /\ qsOf(s)[q].isExcluded
HasActiveRecord(s, q) == q \in DOMAIN qsOf(s) /\ ~qsOf(s)[q].isExcluded
BankLoaded == allQuestions # <<>>
PoolEmpty == Candidates(allQuestions, qsOf(session)) = {}

\* a step that records an answer (the branch of handleAnswer that does not throw)
AnswerAccepted == stats' # stats /\ ~crashed' /\ handleAnswer
\* a step of start, manual advance or deferred advance that runs its updater
AdvanceStep == StartTest \/ handleNext \/ (AutoAdvance /\ ~crashed)

\* ---- C1 ----
\* The current question is still active, it has been answered, no deferred
\* advance is in flight, and every advance can only select it again.
Blocked ==
    /\ BankLoaded /\ ~crashed
    /\ hasAnswered
    /\ pendingAdvance = 0
    /\ currentQuestionKey(allQuestions, session) # Null
    /\ HasActiveRecord(session, session.currentQuestionId)
    /\ pickNextQuestionId(allQuestions, qsOf(session)) = {session.currentQuestionId}

\* Lemma for C1: without reload or reset a Blocked state is never left, so no
\* answer is accepted from it again.
BlockedIsPermanent ==
    [][(Blocked /\ ~Reload /\ ~handleReset) => (Blocked' /\ stats' = stats)]_vars

\* every question of the bank has exactly one option marked correct
WellFormedBank ==
    \A i \in DOMAIN allQuestions :
        Cardinality({k \in DOMAIN allQuestions[i].options :
                        allQuestions[i].options[k].isCorrect}) = 1

\* C1 (Termination): with a well-formed bank and every answer so far correct,
\* no reachable state has a question still active while handleAnswer is
\* permanently blocked by hasAnswered, so answering correctly and advancing
\* always empties the active pool.
C1_NoBlockedPresentation ==
    ~(Blocked /\ WellFormedBank /\ stats.correctAnswers = stats.totalAnswers)

\* ---- C2 ----
ResetComplete ==
    /\ activeCount(session) = totalCount(allQuestions)
    /\ \A q \in BankIds(allQuestions) :
          /\ q \in DOMAIN qsOf(session)
          /\ qsOf(session)[q].consecutiveCorrect = 0
          /\ ~qsOf(session)[q].isExcluded
    /\ ~isFinished(session)
    /\ completedCount(allQuestions, session) = 0

\* C2 (Reset completeness, progress): right after handleReset the active-pool
\* size equals the bank size, every bank question has a record with
\* consecutiveCorrect = 0 and isExcluded = false, the session is not reported
\* finished and the completed count is 0.
C2_ResetCompleteness == [][handleReset => ResetComplete']_vars

\* ---- C3 ----
\* C3 (Range invariant): every progress record has 0 <= consecutiveCorrect <= 5,
\* and consecutiveCorrect = 5 implies isExcluded, in every reachable state,
\* reloads included.
C3_RangeInvariant ==
    \A q \in DOMAIN qsOf(session) :
        /\ qsOf(session)[q].consecutiveCorrect >= 0
        /\ qsOf(session)[q].consecutiveCorrect <= MasteryThreshold
        /\ (qsOf(session)[q].consecutiveCorrect = MasteryThreshold
               => qsOf(session)[q].isExcluded)

\* ---- C4 ----
\* C4 (Mastery transition): an accepted answer to question q sets q's
\* consecutiveCorrect to previous+1 when the option shown at the chosen index
\* is correct and to 0 otherwise, and q is excluded afterwards exactly when the
\* answer was correct and the new consecutiveCorrect is >= 5.
C4_MasteryTransition ==
    [][AnswerAccepted =>
        LET q == session.currentQuestionId
            correct == displayedOptions[selectedIdx'[1] + 1].isCorrect
            new == qsOf(session')[q]
        IN /\ selectedIdx' # <<>>
           /\ new.consecutiveCorrect =
                 IF correct THEN qsOf(session)[q].consecutiveCorrect + 1 ELSE 0
           /\ new.isExcluded <=> (correct /\ new.consecutiveCorrect >= MasteryThreshold)
      ]_vars

\* an answer has just been accepted and it excluded the current question
C4_Witness ==
    /\ hasAnswered /\ presentationAnswered /\ selectedIdx # <<>>
    /\ Excluded(session, session.currentQuestionId)
    /\ qsOf(session)[session.currentQuestionId].consecutiveCorrect = MasteryThreshold

\* ---- C5 ----
\* C5 (Exclusion permanence): once a record has isExcluded = true, no step other
\* than reset records another answer against it or clears isExcluded.
C5_ExclusionPermanent ==
    [][~handleReset =>
        \A q \in DOMAIN qsOf(session) :
            qsOf(session)[q].isExcluded =>
                (q \in DOMAIN qsOf(session') /\ qsOf(session')[q] = qsOf(session)[q])
      ]_vars

\* ---- C6 ----
\* C6 (At most one answer per presentation): once an answer has been accepted
\* for the current presentation, no further handleAnswer changes progress or
\* stats before the next start/advance, a reload in between included.
C6_OneAnswerPerPresentation ==
    [][presentationAnswered =>
        ~(handleAnswer /\ (stats' # stats \/ session' # session))]_vars

\* ---- C7 ----
\* C7 (Re-presentation): every start/advance that selects a non-null id, the
\* already-current id included, yields a fresh presentation that accepts an
\* answer (nothing selected, hasAnswered false).
C7_FreshPresentation ==
    [][(session'.currentQuestionId # Null /\ AdvanceStep) =>
        (~hasAnswered' /\ selectedIdx' = <<>>)]_vars

\* ---- C8 ----
\* C8 (Finished exactly when the pool is empty): with the bank loaded,
\* isFinished holds iff no bank question has a non-excluded record, iff
\* pickNextQuestionId would return null.
C8_FinishedIffPoolEmpty ==
    BankLoaded =>
        /\ isFinished(session) <=>
              (\A q \in BankIds(allQuestions) : ~HasActiveRecord(session, q))
        /\ isFinished(session) <=>
              (pickNextQuestionId(allQuestions, qsOf(session)) = {Null})

C10_CurrentIsActive ==
    (BankLoaded /\ session.currentQuestionId # Null) =>
        /\ session.currentQuestionId \in BankIds(allQuestions)
        /\ HasActiveRecord(session, session.currentQuestionId)

\* C11 (pool shrinks monotonically): no answer step and no advance step
\* increases activeCount, the number of non-excluded progress records
C11_PoolNeverGrows ==
    [][activeCount(session') > activeCount(session)
         => ~(AnswerAccepted \/ AdvanceStep)]_vars

\* "no bank question has isExcluded = false" in the given progress map
NoActiveBankQuestion(questions, states) ==
    \A q \in BankIds(questions) : ~(q \in DOMAIN states /\ ~states[q].isExcluded)

\* C12 (next-question pick): pickNextQuestionId returns null exactly when no
\* bank question has a record with isExcluded = false; otherwise any bank
\* question whose record is not excluded, and only such a one, can be returned;
\* a start or advance step never makes an excluded question current
C12_PickContract ==
    /\ [](BankLoaded =>
            /\ (pickNextQuestionId(allQuestions, qsOf(session)) = {Null})
                 <=> NoActiveBankQuestion(allQuestions, qsOf(session))
            /\ ~NoActiveBankQuestion(allQuestions, qsOf(session)) =>
                 pickNextQuestionId(allQuestions, qsOf(session)) =
                   {q \in BankIds(allQuestions) : HasActiveRecord(session, q)})
    /\ [][(session'.currentQuestionId # Null /\ AdvanceStep) =>
            ~Excluded(session', session'.currentQuestionId)]_vars

\* C13 (stats accounting): an accepted answer adds 1 to totalAnswers and adds 1
\* to correctAnswers exactly when the chosen option is correct; only an accepted
\* answer or a reset changes Stats; correctAnswers <= totalAnswers in every
\* state, and without a reset neither counter decreases
C13_StatsAccounting ==
    /\ [](stats.correctAnswers <= stats.totalAnswers)
    /\ [][/\ stats' # stats => (AnswerAccepted \/ handleReset)
          /\ (stats' # stats /\ AnswerAccepted) =>
               /\ selectedIdx' # <<>>
               /\ stats'.totalAnswers = stats.totalAnswers + 1
               /\ stats'.correctAnswers = stats.correctAnswers +
                    (IF displayedOptions[selectedIdx'[1] + 1].isCorrect THEN 1 ELSE 0)
          /\ (stats' # stats /\ ~handleReset) =>
               /\ stats'.totalAnswers >= stats.totalAnswers
               /\ stats'.correctAnswers >= stats.correctAnswers]_vars

C13_Witness ==
    /\ stats.totalAnswers >= 3
    /\ stats.correctAnswers >= 1
    /\ stats.correctAnswers < stats.totalAnswers
    /\ hasAnswered

\* C14 (write-through persistence round trip): in every state the stored
\* session and the stored stats are the in-memory ones, and a reload restores
\* the same progress map, currentQuestionId and stats
C14_WriteThroughRoundTrip ==
    /\ [](storedSession = <<session>> /\ storedStats = <<stats>>)
    /\ [][Reload => (session' = session /\ stats' = stats /\ ~crashed')]_vars

\* a reload has restored a session with progress, a current question and counts
C14_Witness ==
    /\ allQuestions = <<>>
    /\ ~hasAnswered
    /\ session.currentQuestionId # Null
    /\ \E q \in DOMAIN qsOf(session) : qsOf(session)[q].consecutiveCorrect >= 2
    /\ stats.totalAnswers >= 3
    /\ storedSession = <<session>>
    /\ storedStats = <<stats>>

\* C18 (reset completeness, stats and storage): a reset step leaves both
\* counters 0 and currentQuestionId null in memory, the stored session and
\* stats are the fresh ones, and a reload from that storage yields them again
C18_ResetClearsStatsAndStorage ==
    [][handleReset =>
         /\ stats' = initialStats
         /\ session'.currentQuestionId = Null
         /\ storedSession' = <<initialSession>>
         /\ storedStats' = <<initialStats>>
         /\ rehydrateSession(storedSession') = initialSession
         /\ rehydrateStats(storedStats') = initialStats]_vars

\* a reset has acted on a session in which a question had been excluded (its
\* deferred advance is still pending)
C18_Witness ==
    /\ BankLoaded
    /\ pendingAdvance > 0
    /\ session = initialSession
    /\ stats = initialStats
    /\ storedSession = <<initialSession>>
    /\ storedStats = <<initialStats>>
    /\ ~crashed

\* stored values that are not a structurally valid session or stats
CorruptEntries == {<<NotJson>>, <<JsonNull>>, <<JsonNumber>>, <<JsonEmptyObject>>}

\* C15 (corrupt persisted state treated as absent): a startup that finds a
\* stored session or stats value that is unparseable or of the wrong shape does
\* not fail and starts from the fresh value of that entry
C15_CorruptTreatedAsAbsent ==
    [][((storedSession \in CorruptEntries \/ storedStats \in CorruptEntries) /\ Reload) =>
         /\ ~crashed'
         /\ storedSession \in CorruptEntries => session' = initialSession
         /\ storedStats \in CorruptEntries => stats' = initialStats]_vars

\* the stored start is a numeric string
UsableStart == storedTimerStart.present /\ storedTimerStart.numeric

\* C16 (reset completeness, timer): a reset step sets the elapsed time to 0 and
\* leaves the start used by the tick callback equal to the persisted start (the
\* reset instant), and every tick reports now minus the persisted start
C16_TimerRestartsAtReset ==
    /\ [][handleReset =>
            (elapsedMs' = 0 /\ storedTimerStart' = NumericEntry(timerStartMs'))]_vars
    /\ [][(UsableStart /\ update) => elapsedMs' = now - storedTimerStart.value]_vars

\* C17 (timer survives reload): the program writes the stored start only in a
\* reset, or in a startup that finds it absent or not numeric; a startup that
\* finds a numeric start keeps it and shows now minus that start
C17_TimerSurvivesReload ==
    [][/\ (storedTimerStart' # storedTimerStart /\ ~TamperStorage) =>
            \/ handleReset
            \/ ~UsableStart /\ Reload
       /\ (UsableStart /\ ~crashed' /\ Reload) =>
            /\ storedTimerStart' = storedTimerStart
            /\ timerStartMs' = storedTimerStart.value
            /\ elapsedMs' = now - storedTimerStart.value
       /\ (~UsableStart /\ ~crashed' /\ Reload) =>
            /\ storedTimerStart' = NumericEntry(now)
            /\ elapsedMs' = 0]_vars

\* after a reload the timer shows time counted from a start taken earlier
C17_Witness ==
    /\ ~crashed
    /\ allQuestions = <<>>
    /\ storedTimerStart = NumericEntry(timerStartMs)
    /\ timerStartMs >= 1
    /\ now > timerStartMs
    /\ elapsedMs = now - timerStartMs

\* C19 (auto-advance after exclusion): an accepted answer that excludes the
\* current question schedules one more deferred advance, and a deferred advance
\* that fires sets currentQuestionId to a pick over the progress of that moment
C19_ExclusionSchedulesAdvance ==
    /\ [][(/\ pendingAdvance < MaxPending
           /\ Excluded(session', session.currentQuestionId)
           /\ AnswerAccepted) => pendingAdvance' = pendingAdvance + 1]_vars
    /\ [][(pendingAdvance > 0 /\ ~crashed /\ AutoAdvance) =>
            /\ session'.currentQuestionId \in
                 pickNextQuestionId(allQuestions, qsOf(session))
            /\ qsOf(session') = qsOf(session)]_vars

\* the question that scheduled the pending advance is no longer current: the
\* user advanced or reset in between
Superseded == pendingAdvance > 0 /\ ~Excluded(session, session.currentQuestionId)

FreshRecord(q) == [questionId |-> q, consecutiveCorrect |-> 0, isExcluded |-> FALSE]

\* C21 (progress initialization): the step taken when the bank becomes known
\* gives every bank id without a record a fresh record, keeps every existing
\* record (orphans included) and currentQuestionId as they were, adds nothing
\* else, and applying the initialization once more changes nothing
C21_InitializeProgress ==
    [][LoadBank =>
         /\ DOMAIN qsOf(session') = DOMAIN qsOf(session) \cup BankIds(allQuestions')
         /\ \A q \in DOMAIN qsOf(session) : qsOf(session')[q] = qsOf(session)[q]
         /\ \A q \in BankIds(allQuestions') \ DOMAIN qsOf(session) :
                qsOf(session')[q] = FreshRecord(q)
         /\ session'.currentQuestionId = session.currentQuestionId
         /\ initializeProgress(allQuestions', session') = session']_vars

\* a bank of one question was loaded over progress that holds an answered
\* record and a record of a question no longer in the bank
C21_Witness ==
    /\ BankLoaded
    /\ ~crashed
    /\ BankIds(allQuestions) = {1}
    /\ DOMAIN qsOf(session) = {1, 2}
    /\ qsOf(session)[1].consecutiveCorrect >= 1
    /\ qsOf(session)[2].consecutiveCorrect >= 1

\* the session restricted to the records of bank questions
WithoutOrphans(questions, s) ==
    [s EXCEPT !.questionStates =
        [q \in (DOMAIN s.questionStates) \cap BankIds(questions) |-> s.questionStates[q]]]

\* C22 (orphaned records are harmless): with the bank loaded, active-pool size,
\* completed count, finished status and the pick are what they would be without
\* the records of questions that are not in the bank; and when every bank
\* question is excluded the session is reported finished
C22_OrphansHarmless ==
    BankLoaded =>
        /\ activeCount(session) = activeCount(WithoutOrphans(allQuestions, session))
        /\ completedCount(allQuestions, session) =
             completedCount(allQuestions, WithoutOrphans(allQuestions, session))
        /\ isFinished(session) <=> isFinished(WithoutOrphans(allQuestions, session))
        /\ pickNextQuestionId(allQuestions, qsOf(session)) =
             pickNextQuestionId(allQuestions,
                                qsOf(WithoutOrphans(allQuestions, session)))
        /\ (\A q \in BankIds(allQuestions) : Excluded(session, q)) => isFinished(session)

\* C23 (frame of recordAnswer): an accepted answer leaves currentQuestionId
\* and the record of every question other than the current one unchanged, and
\* creates no record other than the current question's
C23_AnswerFrame ==
    [][AnswerAccepted =>
         /\ session'.currentQuestionId = session.currentQuestionId
         /\ DOMAIN qsOf(session') = DOMAIN qsOf(session) \cup {session.currentQuestionId}
         /\ \A q \in DOMAIN qsOf(session) \ {session.currentQuestionId} :
                qsOf(session')[q] = qsOf(session)[q]
         /\ allQuestions' = allQuestions]_vars

\* an answer was just accepted while another question holds a streak
C23_Witness ==
    /\ hasAnswered
    /\ presentationAnswered
    /\ ~crashed
    /\ session.currentQuestionId \in DOMAIN qsOf(session)
    /\ \E q \in DOMAIN qsOf(session) \ {session.currentQuestionId} :
          qsOf(session)[q].consecutiveCorrect >= 1
    /\ stats.totalAnswers > stats.correctAnswers

\* the current question is in the bank and none of its options is marked correct
CurrentHasNoCorrectOption ==
    /\ currentQuestionKey(allQuestions, session) # Null
    /\ \A k \in 1..3 : ~currentQuestion(allQuestions, session).options[k].isCorrect

\* C24 (question with no correct option): every answer given to such a question
\* is accepted without a crash, adds 1 to totalAnswers and nothing to
\* correctAnswers, and leaves its record at consecutiveCorrect = 0, not excluded
C24_NoCorrectOptionIsScoredWrong ==
    [][(CurrentHasNoCorrectOption /\ handleAnswer) =>
         /\ ~crashed'
         /\ hasAnswered'
         /\ stats'.totalAnswers = stats.totalAnswers + 1
         /\ stats'.correctAnswers = stats.correctAnswers
         /\ session.currentQuestionId \in DOMAIN qsOf(session')
         /\ qsOf(session')[session.currentQuestionId].consecutiveCorrect = 0
         /\ ~qsOf(session')[session.currentQuestionId].isExcluded]_vars

\* an answer to a question without a correct option has just been recorded
C24_Witness ==
    /\ CurrentHasNoCorrectOption
    /\ hasAnswered
    /\ presentationAnswered
    /\ ~crashed
    /\ stats.totalAnswers >= 1
    /\ stats.correctAnswers = 0

\* s and t hold the same elements, each once
IsPermutationOf(s, t) ==
    /\ Len(s) = Len(t)
    /\ \E f \in [DOMAIN s -> DOMAIN t] :
          /\ \A i, j \in DOMAIN s : i # j => f[i] # f[j]
          /\ \A i \in DOMAIN s : s[i] = t[f[i]]

\* C25 (shuffling never affects evaluation): while a bank question is current
\* the displayed options are a permutation of its 3 options, and an accepted
\* answer counts as correct, in Stats and in the streak, exactly when the option
\* displayed at the chosen index is marked correct
C25_ShuffleDoesNotAffectScoring ==
    /\ []((~crashed /\ currentQuestionKey(allQuestions, session) # Null) =>
            /\ Len(displayedOptions) = 3
            /\ IsPermutationOf(displayedOptions,
                               currentQuestion(allQuestions, session).options))
    /\ [][AnswerAccepted =>
            LET shownCorrect == displayedOptions[selectedIdx'[1] + 1].isCorrect
                q == session.currentQuestionId
            IN /\ (stats'.correctAnswers = stats.correctAnswers + 1) <=> shownCorrect
               /\ (qsOf(session')[q].consecutiveCorrect > 0) <=> shownCorrect]_vars

\* a correct answer was accepted on options displayed in another order than parsed
C25_Witness ==
    /\ currentQuestionKey(allQuestions, session) # Null
    /\ hasAnswered
    /\ presentationAnswered
    /\ selectedIdx # <<>>
    /\ displayedOptions # currentQuestion(allQuestions, session).options
    /\ displayedOptions[selectedIdx[1] + 1].isCorrect
    /\ ~currentQuestion(allQuestions, session).options[selectedIdx[1] + 1].isCorrect
    /\ stats.correctAnswers >= 1

\* C27 (every accepted answer finds a progress record): whenever the handler
\* would accept an answer (a bank question is current and not yet answered) the
\* progress map holds a record for the current question, and no answer step
\* ends in the crash of a read on a missing record
C27_AnswerFindsRecord ==
    /\ []((~crashed /\ ~hasAnswered /\ currentQuestionKey(allQuestions, session) # Null)
            => session.currentQuestionId \in DOMAIN qsOf(session))
    /\ [][handleAnswer => ~crashed']_vars

\* position in the sequence qs of the first Question with the given id
FirstIndexOf(qs, id) ==
    CHOOSE i \in DOMAIN qs : qs[i].id = id /\ \A j \in 1..(i - 1) : qs[j].id # id

\* C26 (parser dedup): the parsed bank holds each id at most once and exactly
\* the ids of the accepted blocks; the Question kept for an id is the one of
\* the first accepted block with that id; the bank is ordered by first occurrence
C26_ParserDedup ==
    [][FetchCorpus =>
         LET accepted == parseBlocks(raw')
             out == allQuestions'
         IN /\ \A i, j \in DOMAIN out : i # j => out[i].id # out[j].id
            /\ {out[i].id : i \in DOMAIN out} = {accepted[k].id : k \in DOMAIN accepted}
            /\ \A i \in DOMAIN out : out[i] = accepted[FirstIndexOf(accepted, out[i].id)]
            /\ \A i, j \in DOMAIN out :
                  i < j => FirstIndexOf(accepted, out[i].id) < FirstIndexOf(accepted, out[j].id)]_vars

\* two accepted blocks share an id and differ in their options; the bank holds
\* the Question of the first one
C26_Witness ==
    /\ Len(raw) >= 2
    /\ parseBlock(raw[1]) # <<>>
    /\ parseBlock(raw[2]) # <<>>
    /\ parseBlock(raw[1])[1].id = parseBlock(raw[2])[1].id
    /\ parseBlock(raw[1]) # parseBlock(raw[2])
    /\ allQuestions = parseBlock(raw[1])

\* indexes (1-based) among the first 3 lines of the lines that start with a number
NumberedInWindow(lines) ==
    {i \in 1..Min(3, Len(lines)) : lines[i].kind = "question"}

FirstOf(S) == CHOOSE i \in S : \A j \in S : i <= j

\* C28 (parser question-line window): for a corpus of one block, a block with
\* no numbered line among its first 3 lines yields no Question, and a Question
\* that is produced takes its id from the first numbered line among lines 1..3
\* and its options from the 3 lines after that line
C28_QuestionLineWindow ==
    [][(Len(raw') = 1 /\ FetchCorpus) =>
         LET lines == raw'[1]
             out == allQuestions'
         IN /\ NumberedInWindow(lines) = {} => out = <<>>
            /\ (NumberedInWindow(lines) # {} /\ out # <<>>) =>
                 LET q == FirstOf(NumberedInWindow(lines))
                 IN /\ Len(out) = 1
                    /\ out[1].id = lines[q].id
                    /\ Len(lines) >= q + 3
                    /\ \A k \in 1..3 :
                          out[1].options[k].isCorrect <=> (lines[q + k].kind = "star")]_vars

\* C29 (parser option count): for a corpus of one block whose question line is
\* among its first 3 lines, a Question is produced only when exactly 3 lines
\* follow the question line; every Question of every parsed bank has exactly 3
\* options, with ids 0, 1, 2 in source order
C29_ExactlyThreeOptions ==
    [][FetchCorpus =>
         LET out == allQuestions'
         IN /\ \A i \in DOMAIN out :
                 /\ DOMAIN out[i].options = 1..3
                 /\ \A k \in 1..3 : out[i].options[k].id = k - 1
            /\ (Len(raw') = 1 /\ NumberedInWindow(raw'[1]) # {} /\ out # <<>>) =>
                 Len(raw'[1]) - FirstOf(NumberedInWindow(raw'[1])) = 3]_vars

====
